---- MODULE Spec2Model ----
(***************************************************************************)
(* A model of the AWS highly-available three-tier architecture stack:      *)
(* the SecurityGroupsConstruct constructor (statement by statement), the   *)
(* AppTierAsgConstruct constructor and the HighlyAvailableStack            *)
(* constructor that composes the components, and the app tier's boot       *)
(* script with the HTTP service it installs on an instance.                *)
(*                                                                         *)
(* The aws-cdk-lib calls the source makes are modelled by what the library *)
(* does with them: a SecurityGroup created with allowAllOutbound = true    *)
(* carries the single all-traffic egress rule and ignores addEgressRule;   *)
(* rules are de-duplicated; a construct id may be used once per scope;     *)
(* Peer.ipv4 rejects a string that is no CIDR.  The library's "disallow    *)
(* all traffic" placeholder (icmp 252-86 to 255.255.255.255/32), which     *)
(* matches no packet, is not counted as a rule.                            *)
(***************************************************************************)
EXTENDS Integers, Sequences, FiniteSets, TLC

VARIABLES
    mode,       \* which program runs: "sg" or "asg" (a construct alone, as in its unit tests) or "stack"
    props,      \* SecurityGroupsConstructProps handed to the constructor
    sgpc,       \* position in SecurityGroupsConstruct.constructor: a label of SgOrder, "idle", "done" or "failed"
    sg,         \* the construct under construction: [groups, error]
    doc,        \* the configuration document behind StackConfig
    pc,         \* position in HighlyAvailableStack.constructor
    err,        \* the error that ended construction: [kind, field]
    resources,  \* the resource descriptors added to the stack by the other components
    grants,     \* the read grants on the database secret: the tiers whose role may read it
    outputs,    \* the CloudFormation outputs
    asgProps,   \* AppTierAsgConstructProps handed to the constructor
    apppc,      \* position in AppTierAsgConstruct.constructor
    asg,        \* the scaling-group descriptors, by tier
    database,   \* the database descriptor
    prior,      \* the outcome of an earlier assembly from the same document
    boot,       \* an instance running the app tier's boot script
    server      \* the app-tier service on that instance

vars == <<mode, props, sgpc, sg, doc, pc, err, resources, grants, outputs, asgProps, apppc, asg,
          database, prior, boot, server>>

stackVars == <<doc, pc, err, resources, database, grants, outputs>>
instanceVars == <<boot, server>>
asgVars == <<asgProps, apppc, asg>>
sgVars == <<props, sgpc, sg>>

\* ------------------------------------------------------------------------
\* Values
\* ------------------------------------------------------------------------

\* An optional property that the caller left out (undefined).
Absent == "<absent>"

\* a ?? b on an optional boolean ("true" / "false" / Absent)
Nullish(v, d) == IF v = Absent THEN d ELSE v

\* a || b on an optional string: undefined and '' are both falsy
OrElse(v, d) == IF v = Absent \/ v = "" THEN d ELSE v

OptBool == {Absent, "true", "false"}

\* The port numbers the unit tests pass: 80, 443, 8080, 3306.
PortList == <<80, 443, 8080, 3306>>

\* How many entries of PortList every port property may take besides its
\* own conventional value (so that ports can coincide).
MaxAltPorts == 1

AltPorts == {PortList[i] : i \in 1..(IF MaxAltPorts < Len(PortList) THEN MaxAltPorts ELSE Len(PortList))}

AllPorts == {PortList[i] : i \in 1..Len(PortList)}

\* ------------------------------------------------------------------------
\* Addresses and address ranges (ec2.Peer.ipv4 / ec2.Peer.anyIpv4)
\* ------------------------------------------------------------------------

AnyIpv4 == "0.0.0.0/0"

\* The address-range strings used as allowHttpFrom; the last has no mask.
CidrStrings == {"0.0.0.0/0", "203.0.113.0/24", "203.0.113.0"}

\* Peer.ipv4 accepts a.b.c.d/len only.
ValidCidr(s) == s \in {"0.0.0.0/0", "203.0.113.0/24"}

ParseCidr(s) ==
    CASE s = "0.0.0.0/0"      -> [addr |-> <<0, 0, 0, 0>>, len |-> 0]
      [] s = "203.0.113.0/24" -> [addr |-> <<203, 0, 113, 0>>, len |-> 24]

Pow2(n) == IF n = 0 THEN 1 ELSE IF n = 1 THEN 2 ELSE IF n = 2 THEN 4
           ELSE IF n = 3 THEN 8 ELSE IF n = 4 THEN 16 ELSE IF n = 5 THEN 32
           ELSE IF n = 6 THEN 64 ELSE IF n = 7 THEN 128 ELSE 256

\* the number of leading bits of octet i (1..4) that a prefix of length len fixes
PrefixBits(len, i) ==
    LET left == len - 8 * (i - 1)
    IN  IF left <= 0 THEN 0 ELSE IF left >= 8 THEN 8 ELSE left

InCidr(ip, c) ==
    \A i \in 1..4 :
        LET drop == Pow2(8 - PrefixBits(c.len, i))
        IN  ip[i] \div drop = c.addr[i] \div drop

\* ------------------------------------------------------------------------
\* Security groups and rules
\* ------------------------------------------------------------------------

GroupIds == {"alb", "web", "app", "db"}

SgPeer(g) == [kind |-> "sg", ref |-> g]
CidrPeer(s) == [kind |-> "cidr", ref |-> s]

\* ec2.Port.tcp(p)
TcpRule(peer, p) == [peer |-> peer, proto |-> "tcp", fromPort |-> p, toPort |-> p]

\* the rule a group created with allowAllOutbound = true carries
AllTrafficRule == [peer |-> CidrPeer(AnyIpv4), proto |-> "-1", fromPort |-> 0, toPort |-> 65535]

NoGroup == [created |-> FALSE, name |-> "", allowAllOutbound |-> FALSE,
            ingress |-> {}, egress |-> {}]

EmptyConstruct == [groups |-> [g \in GroupIds |-> NoGroup], error |-> "none"]

\* construct ids kept in a scope shared with the earlier assembly
UsedNamesShared(c) ==
    {c.groups[g].name : g \in {h \in GroupIds : c.groups[h].created}}
    \cup (IF prior.assembled
          THEN {prior.graph.sg.groups[g].name : g \in {h \in GroupIds : prior.graph.sg.groups[h].created}}
          ELSE {})

UsedNames(c) == {c.groups[g].name : g \in {h \in GroupIds : c.groups[h].created}}

\* new ec2.SecurityGroup(this, id, { vpc, description, allowAllOutbound })
NewSecurityGroup(c, g, id, allowAll) ==
    IF c.error # "none" THEN c
    ELSE IF id \in UsedNames(c)
    THEN [c EXCEPT !.error = "duplicate construct name"]
    ELSE [c EXCEPT !.groups[g] =
            [created |-> TRUE, name |-> id, allowAllOutbound |-> allowAll,
             ingress |-> {},
             egress |-> IF allowAll THEN {AllTrafficRule} ELSE {}]]

\* group.addIngressRule(peer, ec2.Port.tcp(port), description)
AddIngressRule(c, g, peer, port) ==
    IF c.error # "none" THEN c
    ELSE IF peer.kind = "cidr" /\ ~ValidCidr(peer.ref)
    THEN [c EXCEPT !.error = "invalid cidr"]
    ELSE [c EXCEPT !.groups[g].ingress = @ \cup {TcpRule(peer, port)}]

\* group.addEgressRule(peer, ec2.Port.tcp(port), description)
AddEgressRule(c, g, peer, port) ==
    IF c.error # "none" THEN c
    ELSE IF c.groups[g].allowAllOutbound THEN c
    ELSE [c EXCEPT !.groups[g].egress = @ \cup {TcpRule(peer, port)}]

\* ------------------------------------------------------------------------
\* SecurityGroupsConstruct.constructor, statement by statement
\* ------------------------------------------------------------------------

\* the ALB's egress rule toward the Web tier added before the Web tier's group exists
SgOrderEgressFirst ==
    <<"newAlb", "albIngress", "albEgress", "newWeb", "webIngress",
      "newApp", "appIngress", "webEgress", "newDb", "dbIngress",
      "appEgress", "ifPackageDownloads", "webPkgHttp", "webPkgHttps",
      "appPkgHttp", "appPkgHttps">>

\* The statements of the constructor in source order.
SgOrder == <<"newAlb", "albIngress", "newWeb", "webIngress", "albEgress",
             "newApp", "appIngress", "webEgress", "newDb", "dbIngress",
             "appEgress", "ifPackageDownloads", "webPkgHttp", "webPkgHttps",
             "appPkgHttp", "appPkgHttps">>

SgLabels == {SgOrder[i] : i \in 1..Len(SgOrder)}

SgIndex(label) == CHOOSE i \in 1..Len(SgOrder) : SgOrder[i] = label

\* props.allowPackageDownloads ?? true
PackageDownloads(p) == Nullish(p.allowPackageDownloads, "true") = "true"

\* lines 159-163
NewAlbStmt(p, c) ==
    NewSecurityGroup(c, "alb", OrElse(p.albSecurityGroupName, "AlbSecurityGroup"),
                     Nullish(p.albAllowAllOutbound, "false") = "true")

\* lines 165-169
AlbIngressStmt(p, c) == AddIngressRule(c, "alb", CidrPeer(p.allowHttpFrom), p.httpPort)

\* lines 172-176
NewWebStmt(p, c) ==
    NewSecurityGroup(c, "web", OrElse(p.webTierSecurityGroupName, "WebTierSecurityGroup"),
                     Nullish(p.webTierAllowAllOutbound, "false") = "true")

\* the Web tier opened to every address instead of to the ALB's group
WebIngressStmtAnyIpv4(p, c) == AddIngressRule(c, "web", CidrPeer(AnyIpv4), p.httpPort)

\* lines 179-183
WebIngressStmt(p, c) == AddIngressRule(c, "web", SgPeer("alb"), p.httpPort)

\* lines 186-190
AlbEgressStmt(p, c) == AddEgressRule(c, "alb", SgPeer("web"), p.httpPort)

\* lines 193-197
NewAppStmt(p, c) ==
    NewSecurityGroup(c, "app", OrElse(p.appTierSecurityGroupName, "AppTierSecurityGroup"),
                     Nullish(p.appTierAllowAllOutbound, "false") = "true")

\* the App tier's ingress opened on the Web tier's port instead of its own
AppIngressStmtHttpPort(p, c) == AddIngressRule(c, "app", SgPeer("web"), p.httpPort)

\* lines 200-204
AppIngressStmt(p, c) == AddIngressRule(c, "app", SgPeer("web"), p.appTierPort)

\* lines 207-211
WebEgressStmt(p, c) == AddEgressRule(c, "web", SgPeer("app"), p.appTierPort)

\* the Database group not created (the field aliased to an existing group)
NewDbStmtAliased(p, c) == c

\* lines 214-218
NewDbStmt(p, c) ==
    NewSecurityGroup(c, "db", OrElse(p.databaseSecurityGroupName, "DatabaseSecurityGroup"),
                     Nullish(p.dbAllowAllOutbound, "false") = "true")

\* the Database opened to the Web tier's group instead of the App tier's
DbIngressStmtFromWeb(p, c) == AddIngressRule(c, "db", SgPeer("web"), p.dbPort)

\* lines 221-225
DbIngressStmt(p, c) == AddIngressRule(c, "db", SgPeer("app"), p.dbPort)

\* lines 228-232
AppEgressStmt(p, c) == AddEgressRule(c, "app", SgPeer("db"), p.dbPort)

\* lines 236-240
WebPkgHttpStmt(p, c) == AddEgressRule(c, "web", CidrPeer(AnyIpv4), p.httpPort)

\* lines 242-246
WebPkgHttpsStmt(p, c) == AddEgressRule(c, "web", CidrPeer(AnyIpv4), p.httpsPort)

\* lines 249-253
AppPkgHttpStmt(p, c) == AddEgressRule(c, "app", CidrPeer(AnyIpv4), p.httpPort)

\* lines 255-259
AppPkgHttpsStmt(p, c) == AddEgressRule(c, "app", CidrPeer(AnyIpv4), p.httpsPort)

\* the effect of one statement on the construct
SgStatement(label, p, c) ==
    CASE label = "newAlb" -> NewAlbStmt(p, c)
      [] label = "albIngress" -> AlbIngressStmt(p, c)
      [] label = "newWeb" -> NewWebStmt(p, c)
      [] label = "webIngress" -> WebIngressStmt(p, c)
      [] label = "albEgress" -> AlbEgressStmt(p, c)
      [] label = "newApp" -> NewAppStmt(p, c)
      [] label = "appIngress" -> AppIngressStmt(p, c)
      [] label = "webEgress" -> WebEgressStmt(p, c)
      [] label = "newDb" -> NewDbStmt(p, c)
      [] label = "dbIngress" -> DbIngressStmt(p, c)
      [] label = "appEgress" -> AppEgressStmt(p, c)
      [] label = "ifPackageDownloads" -> c
      [] label = "webPkgHttp" -> WebPkgHttpStmt(p, c)
      [] label = "webPkgHttps" -> WebPkgHttpsStmt(p, c)
      [] label = "appPkgHttp" -> AppPkgHttpStmt(p, c)
      [] label = "appPkgHttps" -> AppPkgHttpsStmt(p, c)

\* where control goes after a statement that did not throw
SgAfter(label, p) ==
    IF label = "ifPackageDownloads" /\ ~PackageDownloads(p) THEN "done"
    ELSE IF SgIndex(label) = Len(SgOrder) THEN "done"
    ELSE SgOrder[SgIndex(label) + 1]

\* the position after executing the statement at label: a throw ends the constructor
SgGoto(label, p, c) ==
    IF SgStatement(label, p, c).error # "none" THEN "failed" ELSE SgAfter(label, p)

RECURSIVE SgRunFrom(_, _, _)
\* the constructor run to its end from a position
SgRunFrom(label, p, c) ==
    IF label \in {"done", "failed"} THEN c
    ELSE SgRunFrom(SgGoto(label, p, c), p, SgStatement(label, p, c))

\* new SecurityGroupsConstruct(scope, id, props)
SecurityGroupsConstruct(p) == SgRunFrom("newAlb", p, EmptyConstruct)

\* ------------------------------------------------------------------------
\* The construct built alone from its props, one statement per step
\* ------------------------------------------------------------------------

PortChoices(own) == {own} \cup AltPorts

NameChoices ==
    { [alb |-> Absent, web |-> Absent, app |-> Absent, db |-> Absent],
      [alb |-> "dev-alb-sg", web |-> "", app |-> "dev-app-sg", db |-> "dev-db-sg"],
      [alb |-> Absent, web |-> "dev-sg", app |-> "dev-sg", db |-> Absent] }

MakeProps(cidr, http, https, app, db, fAlb, fWeb, fApp, fDb, pkg, names) ==
    [allowHttpFrom |-> cidr, httpPort |-> http, httpsPort |-> https,
     appTierPort |-> app, dbPort |-> db,
     albAllowAllOutbound |-> fAlb, webTierAllowAllOutbound |-> fWeb,
     appTierAllowAllOutbound |-> fApp, dbAllowAllOutbound |-> fDb,
     allowPackageDownloads |-> pkg,
     albSecurityGroupName |-> names.alb, webTierSecurityGroupName |-> names.web,
     appTierSecurityGroupName |-> names.app, databaseSecurityGroupName |-> names.db]

DefaultNames == [alb |-> Absent, web |-> Absent, app |-> Absent, db |-> Absent]

\* Props of the unit tests, varied in ports, ranges, flags and names.
SgPropsSet ==
    { MakeProps(cidr, http, https, app, db, fAlb, fWeb, fApp, fDb, pkg, DefaultNames) :
        cidr \in {c \in CidrStrings : ValidCidr(c)},
        http \in PortChoices(80), https \in PortChoices(443),
        app \in PortChoices(8080), db \in PortChoices(3306),
        fAlb \in OptBool, fWeb \in OptBool, fApp \in OptBool, fDb \in OptBool,
        pkg \in OptBool }
    \cup
    { MakeProps(cidr, 80, 443, 8080, 3306, Absent, Absent, Absent, Absent, pkg, names) :
        cidr \in CidrStrings, pkg \in OptBool, names \in NameChoices }

Unset == [unset |-> TRUE]

NoError == [kind |-> "none", field |-> ""]

NoAsg == [created |-> FALSE]

\* no earlier assembly
NoPrior == [assembled |-> FALSE]

\* no instance, no service
NoBoot == [pc |-> "none"]

NoServer == [state |-> "none"]

NoDatabase == [created |-> FALSE]

InitSG ==
    /\ mode = "sg"
    /\ props \in SgPropsSet
    /\ sgpc = "newAlb"
    /\ sg = EmptyConstruct
    /\ doc = Unset /\ pc = "idle" /\ err = NoError
    /\ resources = {} /\ grants = {} /\ outputs = {}
    /\ asgProps = Unset /\ apppc = "idle" /\ asg = [t \in {"web", "app"} |-> NoAsg]
    /\ database = NoDatabase /\ prior = NoPrior
    /\ boot = NoBoot /\ server = NoServer

\* one statement of the constructor; it runs alone or inside the stack's constructor
SgStep(label) ==
    /\ sgpc = label
    /\ sg' = SgStatement(label, props, sg)
    /\ sgpc' = SgGoto(label, props, sg)
    /\ UNCHANGED <<mode, prior, instanceVars, props, stackVars, asgVars>>

NewAlbSecurityGroup == SgStep("newAlb")
AlbAddIngressRule == SgStep("albIngress")
NewWebTierSecurityGroup == SgStep("newWeb")
WebTierAddIngressRule == SgStep("webIngress")
AlbAddEgressRule == SgStep("albEgress")
NewAppTierSecurityGroup == SgStep("newApp")
AppTierAddIngressRule == SgStep("appIngress")
WebTierAddEgressRule == SgStep("webEgress")
NewDbSecurityGroup == SgStep("newDb")
DbAddIngressRule == SgStep("dbIngress")
AppTierAddEgressRule == SgStep("appEgress")
IfAllowPackageDownloads == SgStep("ifPackageDownloads")
WebTierAddPackageHttp == SgStep("webPkgHttp")
WebTierAddPackageHttps == SgStep("webPkgHttps")
AppTierAddPackageHttp == SgStep("appPkgHttp")
AppTierAddPackageHttps == SgStep("appPkgHttps")

NextSG ==
    \/ NewAlbSecurityGroup
    \/ AlbAddIngressRule
    \/ NewWebTierSecurityGroup
    \/ WebTierAddIngressRule
    \/ AlbAddEgressRule
    \/ NewAppTierSecurityGroup
    \/ AppTierAddIngressRule
    \/ WebTierAddEgressRule
    \/ NewDbSecurityGroup
    \/ DbAddIngressRule
    \/ AppTierAddEgressRule
    \/ IfAllowPackageDownloads
    \/ WebTierAddPackageHttp
    \/ WebTierAddPackageHttps
    \/ AppTierAddPackageHttp
    \/ AppTierAddPackageHttps

SpecSG == InitSG /\ [][NextSG]_vars

\* ------------------------------------------------------------------------
\* AppTierAsgConstruct.constructor
\* ------------------------------------------------------------------------

\* the boot scripts the repository ships (scripts/<tier>-user-data-<environment>.sh)
ScriptPath(tier, env) ==
    CASE tier = "web-tier" /\ env = "dev" -> "scripts/web-tier-user-data-dev.sh"
      [] tier = "web-tier" /\ env = "staging" -> "scripts/web-tier-user-data-staging.sh"
      [] tier = "web-tier" /\ env = "production" -> "scripts/web-tier-user-data-production.sh"
      [] tier = "web-tier" /\ env = "qa" -> "scripts/web-tier-user-data-qa.sh"
      [] tier = "web-tier" /\ env = "uat" -> "scripts/web-tier-user-data-uat.sh"
      [] tier = "app-tier" /\ env = "dev" -> "scripts/app-tier-user-data-dev.sh"
      [] tier = "app-tier" /\ env = "staging" -> "scripts/app-tier-user-data-staging.sh"
      [] tier = "app-tier" /\ env = "production" -> "scripts/app-tier-user-data-production.sh"
      [] tier = "app-tier" /\ env = "qa" -> "scripts/app-tier-user-data-qa.sh"
      [] tier = "app-tier" /\ env = "uat" -> "scripts/app-tier-user-data-uat.sh"

ShippedEnvironments == {"dev", "staging", "production"}

\* the files of the working tree: the shipped scripts, and for the added
\* environment "uat" the web tier's script only ("qa" has neither)
Files ==
    {ScriptPath(t, e) : t \in {"web-tier", "app-tier"}, e \in ShippedEnvironments}
    \cup {ScriptPath("web-tier", "uat")}

\* fs.readFileSync(path, 'utf8'): the content of a file that exists
FileContent(path) == <<"content of", path>>

SubnetKeywords == {"PUBLIC", "PRIVATE_WITH_EGRESS", "PRIVATE_ISOLATED"}

\* lines 62-66: the subnet type chosen for props.subnetType
SubnetTypeOf(keyword) ==
    IF keyword = "PUBLIC" THEN "PUBLIC"
    ELSE IF keyword = "PRIVATE_ISOLATED" THEN "PRIVATE_ISOLATED"
    ELSE "PRIVATE_WITH_EGRESS"

\* IMDSv2 enforced only on request (?? false)
RequireImdsv2OfOptIn(v) == Nullish(v, "false") = "true"

\* line 79: props.requireImdsv2 ?? true
RequireImdsv2Of(v) == Nullish(v, "true") = "true"

\* lines 69-91: new autoscaling.AutoScalingGroup(this, id, {...}); the library
\* rejects capacities that are not ordered min <= desired <= max
NewAsgStmt(p, d) ==
    IF p.minCapacity > p.maxCapacity
    THEN [d EXCEPT !.error = [kind |-> "library validation", field |-> "minCapacity"]]
    ELSE IF p.desiredCapacity < p.minCapacity \/ p.desiredCapacity > p.maxCapacity
    THEN [d EXCEPT !.error = [kind |-> "library validation", field |-> "desiredCapacity"]]
    ELSE [error |-> NoError,
          group |->
            [created |-> TRUE,
             id |-> OrElse(p.autoScalingGroupName, "AppTierAutoScalingGroup"),
             securityGroup |-> p.securityGroup,
             minCapacity |-> p.minCapacity,
             maxCapacity |-> p.maxCapacity,
             desiredCapacity |-> p.desiredCapacity,
             subnetType |-> SubnetTypeOf(p.subnetType),
             cooldown |-> p.cooldown,
             requireImdsv2 |-> RequireImdsv2Of(p.requireImdsv2),
             blockDevices |-> <<[deviceName |-> p.deviceName,
                                 volumeSize |-> p.volumeSize,
                                 volumeType |-> p.volumeType,
                                 encrypted |-> p.encrypted,
                                 deleteOnTermination |-> p.deleteOnTermination,
                                 iops |-> p.iops]>>,
             userData |-> <<>>,
             healthCheckType |-> "EC2",
             healthCheckGracePeriod |-> 0,
             policies |-> {},
             targetGroups |-> {}]]

\* a boot script that is not there is skipped instead of failing the read
UserDataStmtIgnoreMissing(p, d) ==
    IF p.userDataScriptPath = Absent \/ p.userDataScriptPath = "" THEN d
    ELSE IF p.userDataScriptPath \notin Files THEN d
    ELSE [d EXCEPT !.group.userData = Append(@, FileContent(p.userDataScriptPath))]

\* lines 94-97: read the boot script and add it as user data
UserDataStmt(p, d) ==
    IF p.userDataScriptPath = Absent \/ p.userDataScriptPath = "" THEN d
    ELSE IF p.userDataScriptPath \notin Files
    THEN [d EXCEPT !.error = [kind |-> "ENOENT", field |-> "userDataScriptPath"]]
    ELSE [d EXCEPT !.group.userData = Append(@, FileContent(p.userDataScriptPath))]

\* the app tier also registered with the load balancer's target group
HealthCheckStmtAttach(p, d) ==
    [d EXCEPT !.group.healthCheckGracePeriod = p.healthCheckGracePeriod,
              !.group.healthCheckType = p.healthCheckType,
              !.group.targetGroups = @ \cup {"WebTierTargetGroup"}]

\* the health check left as the library set it when the group was created
HealthCheckStmtSkipped(p, d) == d

\* lines 103-105: override the health-check configuration
HealthCheckStmt(p, d) ==
    [d EXCEPT !.group.healthCheckGracePeriod = p.healthCheckGracePeriod,
              !.group.healthCheckType = p.healthCheckType]

\* the policy's target fixed at 70 percent whatever the configuration says
ScaleOnCpuStmtFixedTarget(p, d) ==
    [d EXCEPT !.group.policies = @ \cup
        {[id |-> OrElse(p.cpuScalingPolicyName, "AppTierCpuScaling"),
          type |-> "TargetTrackingScaling",
          metric |-> "ASGAverageCPUUtilization",
          targetUtilizationPercent |-> 70,
          cooldown |-> p.cooldown]}]

\* lines 108-111: scaleOnCpuUtilization
ScaleOnCpuStmt(p, d) ==
    [d EXCEPT !.group.policies = @ \cup
        {[id |-> OrElse(p.cpuScalingPolicyName, "AppTierCpuScaling"),
          type |-> "TargetTrackingScaling",
          metric |-> "ASGAverageCPUUtilization",
          targetUtilizationPercent |-> p.targetCpuUtilization,
          cooldown |-> p.cooldown]}]

AppOrder == <<"newAsg", "userData", "healthCheck", "scaleOnCpu">>

AppIndex(label) == CHOOSE i \in 1..Len(AppOrder) : AppOrder[i] = label

AppStatement(label, p, d) ==
    CASE label = "newAsg" -> NewAsgStmt(p, d)
      [] label = "userData" -> UserDataStmt(p, d)
      [] label = "healthCheck" -> HealthCheckStmt(p, d)
      [] label = "scaleOnCpu" -> ScaleOnCpuStmt(p, d)

AppGoto(label, p, d) ==
    IF AppStatement(label, p, d).error # NoError THEN "failed"
    ELSE IF AppIndex(label) = Len(AppOrder) THEN "done"
    ELSE AppOrder[AppIndex(label) + 1]

\* the construct before its first statement
AppStart == [error |-> NoError, group |-> NoAsg]

\* the construct as the variables hold it: the app tier's descriptor and the error
AppNow == [error |-> err, group |-> asg["app"]]

\* one statement of the constructor; it runs alone or inside the stack's constructor
AppStep(label) ==
    /\ apppc = label
    /\ LET d == AppStatement(label, asgProps, AppNow)
       IN  /\ asg' = [asg EXCEPT !["app"] = d.group]
           /\ err' = d.error
    /\ apppc' = AppGoto(label, asgProps, AppNow)
    /\ UNCHANGED <<mode, prior, instanceVars, sgVars, doc, pc, resources, database, grants, outputs, asgProps>>

NewAutoScalingGroup == AppStep("newAsg")
AddUserData == AppStep("userData")
OverrideHealthCheck == AppStep("healthCheck")
ScaleOnCpuUtilization == AppStep("scaleOnCpu")

\* props of the construct's unit tests, varied in the optional properties
TierSettingsSet ==
    { [minCapacity |-> c[1], maxCapacity |-> c[2], desiredCapacity |-> c[3],
       healthCheckType |-> c[5], healthCheckGracePeriod |-> c[6], cooldown |-> c[7],
       targetCpuUtilization |-> c[4], requireImdsv2 |-> imds, subnetType |-> subnet] :
        c \in {<<2, 6, 2, 70, "EC2", 300, 300>>, <<3, 10, 4, 60, "ELB", 120, 60>>,
               <<6, 2, 2, 70, "EC2", 300, 300>>},
        imds \in OptBool,
        subnet \in SubnetKeywords \cup {Absent, "ISOLATED", "private_isolated"} }

DefaultTier(hc) ==
    [minCapacity |-> 2, maxCapacity |-> 6, desiredCapacity |-> 2,
     healthCheckType |-> hc, healthCheckGracePeriod |-> 300, cooldown |-> 300,
     targetCpuUtilization |-> 70, requireImdsv2 |-> Absent, subnetType |-> Absent]

DefaultStorage ==
    [volumeSize |-> 20, volumeType |-> "gp3", encrypted |-> TRUE,
     deleteOnTermination |-> TRUE, iops |-> 3000, deviceName |-> "/dev/xvda"]

\* the props the constructor is given: a tier's settings, the storage section,
\* the group, the optional names and the optional boot script
MakeAsgProps(tier, storage, group, asgName, policyName, script) ==
    [securityGroup |-> group,
     minCapacity |-> tier.minCapacity, maxCapacity |-> tier.maxCapacity,
     desiredCapacity |-> tier.desiredCapacity,
     healthCheckType |-> tier.healthCheckType,
     healthCheckGracePeriod |-> tier.healthCheckGracePeriod,
     cooldown |-> tier.cooldown,
     targetCpuUtilization |-> tier.targetCpuUtilization,
     requireImdsv2 |-> tier.requireImdsv2,
     subnetType |-> tier.subnetType,
     volumeSize |-> storage.volumeSize, volumeType |-> storage.volumeType,
     encrypted |-> storage.encrypted,
     deleteOnTermination |-> storage.deleteOnTermination,
     iops |-> storage.iops, deviceName |-> storage.deviceName,
     autoScalingGroupName |-> asgName, cpuScalingPolicyName |-> policyName,
     userDataScriptPath |-> script]

AsgPropsSet ==
    { MakeAsgProps(t, DefaultStorage, "app", n, n, script) :
        t \in TierSettingsSet,
        n \in {Absent, "dev-app-asg"},
        script \in {Absent, "", ScriptPath("app-tier", "staging"), ScriptPath("app-tier", "qa")} }

InitASG ==
    /\ mode = "asg"
    /\ asgProps \in AsgPropsSet
    /\ apppc = "newAsg"
    /\ asg = [t \in {"web", "app"} |-> NoAsg]
    /\ err = NoError
    /\ props = Unset /\ sgpc = "idle" /\ sg = EmptyConstruct
    /\ doc = Unset /\ pc = "idle" /\ resources = {} /\ grants = {} /\ outputs = {}
    /\ database = NoDatabase /\ prior = NoPrior
    /\ boot = NoBoot /\ server = NoServer

NextASG ==
    \/ NewAutoScalingGroup
    \/ AddUserData
    \/ OverrideHealthCheck
    \/ ScaleOnCpuUtilization

SpecASG == InitASG /\ [][NextASG]_vars

\* ------------------------------------------------------------------------
\* HighlyAvailableStack.constructor
\* ------------------------------------------------------------------------

\* The settings the stack cannot be built without, in the order the loader
\* looks at them.
RequiredOrder == <<"database.engine", "compute.webTier.maxCapacity",
                   "compute.appTier.minCapacity", "network.security.appTierPort">>

RequiredFields == {RequiredOrder[i] : i \in 1..Len(RequiredOrder)}

\* config/stack-config.ts: a document with a required setting absent is
\* rejected with an error naming the first such setting
LoadConfig(d) ==
    IF d.missing = {} THEN NoError
    ELSE [kind |-> "missing required field",
          field |-> RequiredOrder[CHOOSE i \in 1..Len(RequiredOrder) :
                        /\ RequiredOrder[i] \in d.missing
                        /\ \A j \in 1..(i - 1) : RequiredOrder[j] \notin d.missing]]

\* stack.ts lines 61-75: the props of VpcConstruct
VpcPropsOf(d) == [maxAzs |-> d.vpc.maxAzs, natGatewaysCount |-> d.vpc.natGatewaysCount]

\* the subnet groups of the network: public, private with egress, isolated
SubnetGroups == {"Public", "Private", "Isolated"}

\* the construct id of the subnet of a group in the z-th zone
SubnetId(g, z) ==
    CASE g = "Public"   -> <<"PublicSubnet1", "PublicSubnet2", "PublicSubnet3", "PublicSubnet4">>[z]
      [] g = "Private"  -> <<"PrivateSubnet1", "PrivateSubnet2", "PrivateSubnet3", "PrivateSubnet4">>[z]
      [] g = "Isolated" -> <<"IsolatedSubnet1", "IsolatedSubnet2", "IsolatedSubnet3", "IsolatedSubnet4">>[z]

\* the NAT gateway placed in the public subnet of the z-th zone
NatGatewayId(z) == <<"NatGateway1", "NatGateway2", "NatGateway3", "NatGateway4">>[z]

\* a NAT gateway sits in a public subnet: no more gateways than zones
NatGatewaysOf(p) == IF p.natGatewaysCount < p.maxAzs THEN p.natGatewaysCount ELSE p.maxAzs

\* VpcConstruct: the network, its internet gateway, one subnet of every group
\* in every zone, and the NAT gateways
VpcConstruct(p) ==
    {[type |-> "AWS::EC2::VPC", id |-> "Vpc"],
     [type |-> "AWS::EC2::InternetGateway", id |-> "IGW"]}
    \cup {[type |-> "AWS::EC2::Subnet", id |-> SubnetId(g, z)] : g \in SubnetGroups, z \in 1..p.maxAzs}
    \cup {[type |-> "AWS::EC2::NatGateway", id |-> NatGatewayId(z)] : z \in 1..NatGatewaysOf(p)}

\* NetworkAclConstruct
NetworkAclConstruct(d) ==
    {[type |-> "AWS::EC2::NetworkAcl", id |-> "PublicNetworkAcl"],
     [type |-> "AWS::EC2::NetworkAcl", id |-> "PrivateNetworkAcl"]}

\* AlbConstruct: the load balancer, its target group and its listener
AlbConstruct(d) ==
    {[type |-> "AWS::ElasticLoadBalancingV2::LoadBalancer", id |-> "ApplicationLoadBalancer"],
     [type |-> "AWS::ElasticLoadBalancingV2::TargetGroup", id |-> "WebTierTargetGroup"],
     [type |-> "AWS::ElasticLoadBalancingV2::Listener", id |-> "HttpListener"]}

\* RdsConstruct: the database instance, its subnet group and its credentials secret
RdsConstruct(d) ==
    {[type |-> "AWS::RDS::DBInstance", id |-> "Database"],
     [type |-> "AWS::RDS::DBSubnetGroup", id |-> "DatabaseSubnetGroup"],
     [type |-> "AWS::SecretsManager::Secret", id |-> "DatabaseCredentials"]}

\* deletion protection switched by the environment instead of the setting
RdsPropsOfProdOnly(d) ==
    [multiAz |-> d.database.multiAz,
     backupRetention |-> d.database.backupRetention,
     deletionProtection |-> (d.environment = "production")]

\* stack.ts lines 200-227: the props of RdsConstruct
RdsPropsOf(d) ==
    [multiAz |-> d.database.multiAz,
     backupRetention |-> d.database.backupRetention,
     deletionProtection |-> d.database.deletionProtection]

\* RdsConstruct: the descriptor of the database instance
DatabaseInstance(p) ==
    [created |-> TRUE, multiAz |-> p.multiAz, backupRetention |-> p.backupRetention,
     deletionProtection |-> p.deletionProtection, storageEncrypted |-> TRUE,
     targetGroups |-> {}]

\* WebTierAsgConstruct: the app tier's constructor with the web tier's default
\* ids, and the group attached to the load balancer's target group
WebTierAsgConstruct(p) ==
    LET made == NewAsgStmt(p, AppStart)
        read == IF made.error # NoError THEN made ELSE UserDataStmt(p, made)
    IN  IF read.error # NoError THEN read
        ELSE LET d == ScaleOnCpuStmt(p, HealthCheckStmt(p, read))
             IN  [d EXCEPT !.group.id = OrElse(p.autoScalingGroupName, "WebTierAutoScalingGroup"),
                           !.group.targetGroups = {"WebTierTargetGroup"},
                           !.group.policies =
                               {[q EXCEPT !.id = OrElse(p.cpuScalingPolicyName, "WebTierCpuScaling")] :
                                   q \in @}]

\* stack.ts lines 106-122: the props of SecurityGroupsConstruct
SgPropsOf(d) == d.security

\* stack.ts lines 145-170: the props of WebTierAsgConstruct
WebPropsOf(d) ==
    MakeAsgProps(d.webTier, d.storage, "web", d.names.webTierAutoScalingGroup,
                 d.names.webTierCpuScalingPolicy, ScriptPath("web-tier", d.environment))

\* the app tier handed the web tier's boot script
AppPropsOfWebScript(d) ==
    MakeAsgProps(d.appTier, d.storage, "app", d.names.appTierAutoScalingGroup,
                 d.names.appTierCpuScalingPolicy, ScriptPath("web-tier", d.environment))

\* stack.ts lines 173-197: the props of AppTierAsgConstruct
AppPropsOf(d) ==
    MakeAsgProps(d.appTier, d.storage, "app", d.names.appTierAutoScalingGroup,
                 d.names.appTierCpuScalingPolicy, ScriptPath("app-tier", d.environment))

\* outputs-construct.ts: one CfnOutput per listed value; the export name is
\* <environment>-HighlyAvailable3Tier-<id>, and two outputs have none
OutputsConstruct(env) ==
    { [id |-> o,
       exportName |-> IF o \in {"ApplicationURL", "DatabaseSecretArn"} THEN <<>>
                      ELSE <<env, "-HighlyAvailable3Tier", "-", o>>] :
        o \in {"VpcId", "VpcCidr", "LoadBalancerDNS", "LoadBalancerARN", "ApplicationURL",
               "WebTierAutoScalingGroupName", "WebTierAutoScalingGroupARN",
               "AppTierAutoScalingGroupName", "AppTierAutoScalingGroupARN",
               "DatabaseEndpoint", "DatabasePort", "DatabaseSecretArn"} }

\* import { StackConfig }: the document is loaded before anything is built
LoadStackConfig ==
    /\ pc = "loadConfig"
    /\ err' = LoadConfig(doc)
    /\ pc' = IF LoadConfig(doc) = NoError THEN "vpc" ELSE "failed"
    /\ UNCHANGED <<mode, prior, instanceVars, sgVars, doc, resources, database, grants, outputs, asgVars>>

\* 1. lines 61-75
CreateVpc ==
    /\ pc = "vpc"
    /\ resources' = resources \cup VpcConstruct(VpcPropsOf(doc))
    /\ pc' = "nacl"
    /\ UNCHANGED <<mode, prior, instanceVars, sgVars, doc, err, database, grants, outputs, asgVars>>

\* the load balancer built right after the network ACLs, before the security groups
CreateNetworkAclsThenAlb ==
    /\ pc = "nacl"
    /\ resources' = resources \cup NetworkAclConstruct(doc)
    /\ pc' = "alb"
    /\ UNCHANGED <<mode, prior, instanceVars, sgVars, doc, err, database, grants, outputs, asgVars>>

\* 2. lines 78-103
CreateNetworkAcls ==
    /\ pc = "nacl"
    /\ resources' = resources \cup NetworkAclConstruct(doc)
    /\ pc' = "securityGroups"
    /\ UNCHANGED <<mode, prior, instanceVars, sgVars, doc, err, database, grants, outputs, asgVars>>

\* 3. lines 106-122: the constructor of SecurityGroupsConstruct is entered
CreateSecurityGroups ==
    /\ pc = "securityGroups"
    /\ sgpc = "idle"
    /\ props' = SgPropsOf(doc)
    /\ sgpc' = "newAlb"
    /\ UNCHANGED <<mode, prior, instanceVars, sg, stackVars, asgVars>>

\* ... and returns, or its exception ends the stack's constructor
SecurityGroupsReturn ==
    /\ mode = "stack"
    /\ pc = "securityGroups"
    /\ sgpc \in {"done", "failed"}
    /\ pc' = IF sgpc = "done" THEN "alb" ELSE "failed"
    /\ err' = IF sgpc = "done" THEN err ELSE [kind |-> sg.error, field |-> "network.security"]
    /\ UNCHANGED <<mode, prior, instanceVars, sgVars, doc, resources, database, grants, outputs, asgVars>>

\* 4. lines 125-142
CreateAlb ==
    /\ pc = "alb"
    /\ resources' = resources \cup AlbConstruct(doc)
    /\ pc' = "webTier"
    /\ UNCHANGED <<mode, prior, instanceVars, sgVars, doc, err, database, grants, outputs, asgVars>>

\* 5. lines 145-170
CreateWebTier ==
    /\ pc = "webTier"
    /\ LET d == WebTierAsgConstruct(WebPropsOf(doc))
       IN  /\ asg' = [asg EXCEPT !["web"] = d.group]
           /\ err' = d.error
           /\ pc' = IF d.error = NoError THEN "appTier" ELSE "failed"
    /\ UNCHANGED <<mode, prior, instanceVars, sgVars, doc, resources, database, grants, outputs, asgProps, apppc>>

\* 6. lines 173-197: the constructor of AppTierAsgConstruct is entered
CreateAppTier ==
    /\ pc = "appTier"
    /\ apppc = "idle"
    /\ asgProps' = AppPropsOf(doc)
    /\ apppc' = "newAsg"
    /\ UNCHANGED <<mode, prior, instanceVars, sgVars, stackVars, asg>>

\* ... and returns, or its exception ends the stack's constructor
AppTierReturn ==
    /\ mode = "stack"
    /\ pc = "appTier"
    /\ apppc \in {"done", "failed"}
    /\ pc' = IF apppc = "done" THEN "rds" ELSE "failed"
    /\ UNCHANGED <<mode, prior, instanceVars, sgVars, doc, err, resources, database, grants, outputs, asgVars>>

\* 7. lines 200-227
CreateRds ==
    /\ pc = "rds"
    /\ resources' = resources \cup RdsConstruct(doc)
    /\ database' = DatabaseInstance(RdsPropsOf(doc))
    /\ pc' = "grantRead"
    /\ UNCHANGED <<mode, prior, instanceVars, sgVars, doc, err, grants, outputs, asgVars>>

\* read access to the secret granted to both scaling groups
GrantSecretReadBothTiers ==
    /\ pc = "grantRead"
    /\ grants' = grants \cup {"web", "app"}
    /\ pc' = "outputs"
    /\ UNCHANGED <<mode, prior, instanceVars, sgVars, doc, err, resources, database, outputs, asgVars>>

\* line 231: rdsConstruct.secret.grantRead(appTierAsgConstruct.autoScalingGroup)
GrantSecretRead ==
    /\ pc = "grantRead"
    /\ grants' = grants \cup {"app"}
    /\ pc' = "outputs"
    /\ UNCHANGED <<mode, prior, instanceVars, sgVars, doc, err, resources, database, outputs, asgVars>>

\* 8. lines 234-241
CreateOutputs ==
    /\ pc = "outputs"
    /\ outputs' = outputs \cup OutputsConstruct(doc.environment)
    /\ pc' = "done"
    /\ UNCHANGED <<mode, prior, instanceVars, sgVars, doc, err, resources, database, grants, asgVars>>

\* the configuration documents: the development document, varied one section
\* at a time
DefaultNamesSection ==
    [webTierAutoScalingGroup |-> Absent, webTierCpuScalingPolicy |-> Absent,
     appTierAutoScalingGroup |-> Absent, appTierCpuScalingPolicy |-> Absent]

DefaultSecurity ==
    MakeProps("0.0.0.0/0", 80, 443, 8080, 3306, Absent, Absent, Absent, Absent, Absent, DefaultNames)

\* the development document's network and database sections
DefaultVpc == [maxAzs |-> 2, natGatewaysCount |-> 2]

DefaultDatabase == [multiAz |-> TRUE, backupRetention |-> 7, deletionProtection |-> FALSE]

MakeDoc(missing, env, security, web, app, names) ==
    [missing |-> missing, environment |-> env, security |-> security,
     webTier |-> web, appTier |-> app, storage |-> DefaultStorage, names |-> names,
     vpc |-> DefaultVpc, database |-> DefaultDatabase]

DefaultDoc ==
    MakeDoc({}, "dev", DefaultSecurity, DefaultTier("ELB"), DefaultTier("EC2"), DefaultNamesSection)

\* the zone counts and NAT gateway counts of the documents
ZoneCounts == {2, 3}

NatGatewayCounts == {1, 2, 3}

\* the database settings of the documents
DatabaseSettingsSet ==
    { [multiAz |-> m, backupRetention |-> b, deletionProtection |-> dp] :
        m \in BOOLEAN, b \in {1, 7, 30}, dp \in BOOLEAN }

\* the compute.storage sections of the documents
StorageSet ==
    { [DefaultStorage EXCEPT !.encrypted = e, !.volumeSize = v, !.deleteOnTermination = dt] :
        e \in BOOLEAN, v \in {20, 50}, dt \in BOOLEAN }

\* how many required settings a document may lack at once
MaxMissing == 2

DocSet ==
    { MakeDoc({}, "dev", sec, DefaultTier("ELB"), DefaultTier("EC2"), DefaultNamesSection) :
        sec \in {q \in SgPropsSet : /\ q.httpPort = 80 /\ q.httpsPort = 443
                                    /\ q.appTierPort = 8080 /\ q.dbPort = 3306} }
    \cup
    { MakeDoc({}, env, DefaultSecurity, DefaultTier("ELB"), app,
              [DefaultNamesSection EXCEPT !.appTierAutoScalingGroup = n]) :
        env \in ShippedEnvironments \cup {"qa", "uat"},
        app \in TierSettingsSet,
        n \in {Absent, "dev-app-asg"} }
    \cup
    { MakeDoc({}, "production", DefaultSecurity, web, DefaultTier("EC2"), DefaultNamesSection) :
        web \in TierSettingsSet }
    \cup
    { MakeDoc(m, "dev", DefaultSecurity, DefaultTier("ELB"), DefaultTier("EC2"), DefaultNamesSection) :
        m \in {x \in SUBSET RequiredFields : Cardinality(x) <= MaxMissing} }
    \cup
    { [DefaultDoc EXCEPT !.environment = env, !.vpc = [maxAzs |-> z, natGatewaysCount |-> n]] :
        env \in {"dev", "production"}, z \in ZoneCounts, n \in NatGatewayCounts }
    \cup
    { [DefaultDoc EXCEPT !.environment = env, !.database = db] :
        env \in {"dev", "production"}, db \in DatabaseSettingsSet }
    \cup
    { [DefaultDoc EXCEPT !.environment = env, !.storage = s] :
        env \in {"dev", "staging"}, s \in StorageSet }

Init ==
    /\ mode = "stack"
    /\ doc \in DocSet
    /\ pc = "loadConfig"
    /\ err = NoError
    /\ resources = {} /\ grants = {} /\ outputs = {}
    /\ props = Unset /\ sgpc = "idle" /\ sg = EmptyConstruct
    /\ asgProps = Unset /\ apppc = "idle" /\ asg = [t \in {"web", "app"} |-> NoAsg]
    /\ database = NoDatabase /\ prior = NoPrior
    /\ boot = NoBoot /\ server = NoServer

Next ==
    \/ LoadStackConfig
    \/ CreateVpc
    \/ CreateNetworkAcls
    \/ CreateSecurityGroups
    \/ NextSG
    \/ SecurityGroupsReturn
    \/ CreateAlb
    \/ CreateWebTier
    \/ CreateAppTier
    \/ NextASG
    \/ AppTierReturn
    \/ CreateRds
    \/ GrantSecretRead
    \/ CreateOutputs

Spec == Init /\ [][Next]_vars

\* the app tier's construct built by the stack from a document, or alone from
\* props of its own (with or without a boot script path)
SpecTiers == (Init \/ InitASG) /\ [][Next]_vars

\* the outcome of an assembly: how it ended and the graph it built
Graph ==
    [pc |-> pc, err |-> err, resources |-> resources, database |-> database,
     grants |-> grants, outputs |-> outputs, sg |-> sg, asg |-> asg]

\* the stack is assembled a second time from the same document
Reassemble ==
    /\ mode = "stack"
    /\ pc \in {"done", "failed"}
    /\ ~prior.assembled
    /\ prior' = [assembled |-> TRUE, graph |-> Graph]
    /\ pc' = "loadConfig"
    /\ err' = NoError
    /\ resources' = {} /\ grants' = {} /\ outputs' = {} /\ database' = NoDatabase
    /\ props' = Unset /\ sgpc' = "idle" /\ sg' = EmptyConstruct
    /\ asgProps' = Unset /\ apppc' = "idle" /\ asg' = [t \in {"web", "app"} |-> NoAsg]
    /\ UNCHANGED <<mode, doc, instanceVars>>

NextTwice == Next \/ Reassemble

SpecTwice == Init /\ [][NextTwice]_vars

\* the descriptors of one CloudFormation type in the graph built so far
ResourcesOfType(type) ==
    IF type = "AWS::EC2::SecurityGroup"
    THEN {g \in GroupIds : sg.groups[g].created}
    ELSE IF type = "AWS::AutoScaling::AutoScalingGroup"
    THEN {t \in {"web", "app"} : asg[t].created}
    ELSE {r.id : r \in {x \in resources : x.type = type}}

StackBuilt == pc = "done"

\* ------------------------------------------------------------------------
\* What the rules permit (security groups are stateful allow lists)
\* ------------------------------------------------------------------------

\* Two hosts of the internet, and one member of each tier's group.
Hosts == {"internetA", "internetB", "alb", "web", "app", "db"}

Internet == {"internetA", "internetB"}

HostAddr(h) ==
    CASE h = "internetA" -> <<203, 0, 113, 10>>
      [] h = "internetB" -> <<198, 51, 100, 7>>
      [] h = "alb" -> <<10, 0, 0, 10>>
      [] h = "web" -> <<10, 0, 2, 10>>
      [] h = "app" -> <<10, 0, 3, 10>>
      [] h = "db"  -> <<10, 0, 4, 10>>

\* the tier a host belongs to
TierOf(h) == IF h \in Internet THEN "internet" ELSE h

\* a rule's peer covers a host: by group membership or by address
PeerCovers(peer, h) ==
    IF peer.kind = "sg" THEN h \notin Internet /\ h = peer.ref
    ELSE InCidr(HostAddr(h), ParseCidr(peer.ref))

RuleAllows(r, h, port) ==
    /\ PeerCovers(r.peer, h)
    /\ r.proto \in {"tcp", "-1"}
    /\ r.fromPort <= port /\ port <= r.toPort

\* a host outside every group is not filtered
EgressAllows(c, a, b, port) ==
    a \in Internet \/ \E r \in c.groups[a].egress : RuleAllows(r, b, port)

IngressAllows(c, a, b, port) ==
    b \in Internet \/ \E r \in c.groups[b].ingress : RuleAllows(r, a, port)

\* a may open a tcp connection to b on port
Permitted(c, a, b, port) ==
    /\ TierOf(a) # TierOf(b)
    /\ EgressAllows(c, a, b, port)
    /\ IngressAllows(c, a, b, port)

ProbePorts == AllPorts \cup {22}

\* the tier pairs between which some connection is permitted
PermittedPairs(c) ==
    {<<TierOf(a), TierOf(b)>> : a \in Hosts, b \in Hosts} \cap
    {pr \in (GroupIds \cup {"internet"}) \X (GroupIds \cup {"internet"}) :
        \E a \in Hosts, b \in Hosts, port \in ProbePorts :
            TierOf(a) = pr[1] /\ TierOf(b) = pr[2] /\ Permitted(c, a, b, port)}

\* the chain ALB -> Web tier -> App tier -> Database with the port property of each hop
Chain(p) == { [src |-> "alb", dst |-> "web", port |-> p.httpPort],
              [src |-> "web", dst |-> "app", port |-> p.appTierPort],
              [src |-> "app", dst |-> "db",  port |-> p.dbPort] }

Adjacent == {<<"alb", "web">>, <<"web", "app">>, <<"app", "db">>}

SgBuilt == sgpc = "done"

\* ------------------------------------------------------------------------
\* Claims about SecurityGroupsConstruct
\* ------------------------------------------------------------------------

\* C1: after the construct is built from any configuration, every adjacent
\* pair of the chain has its allow rule on the destination's port both as an
\* egress rule of the source group naming the destination group and as an
\* ingress rule of the destination group naming the source group, and no rule
\* of any group names a non-adjacent group.
C1_ChainRulesOnBothSides ==
    SgBuilt =>
        /\ \A h \in Chain(props) :
              /\ TcpRule(SgPeer(h.dst), h.port) \in sg.groups[h.src].egress
              /\ TcpRule(SgPeer(h.src), h.port) \in sg.groups[h.dst].ingress
        /\ \A g \in GroupIds :
              /\ \A r \in sg.groups[g].egress :
                    r.peer.kind = "sg" => <<g, r.peer.ref>> \in Adjacent
              /\ \A r \in sg.groups[g].ingress :
                    r.peer.kind = "sg" => <<r.peer.ref, g>> \in Adjacent

\* no allowAllOutbound flag is set
NoAllowAllOutbound(p) ==
    /\ p.albAllowAllOutbound # "true" /\ p.webTierAllowAllOutbound # "true"
    /\ p.appTierAllowAllOutbound # "true" /\ p.dbAllowAllOutbound # "true"

C3_DbHasNoEgress ==
    SgBuilt => sg.groups["db"].egress = {}

C6_AlbAllowsHttpAndHttps ==
    SgBuilt =>
        \A a \in Hosts :
            InCidr(HostAddr(a), ParseCidr(props.allowHttpFrom)) =>
                /\ IngressAllows(sg, a, "alb", props.httpPort)
                /\ IngressAllows(sg, a, "alb", props.httpsPort)

\* C7: each of the Web tier, App tier and Database groups has exactly one
\* ingress rule, whose peer is the group of the preceding tier, on its own port.
C7_SingleIngressFromPredecessor ==
    SgBuilt =>
        \A h \in Chain(props) :
            sg.groups[h.dst].ingress = {TcpRule(SgPeer(h.src), h.port)}

C7_Witness ==
    /\ SgBuilt
    /\ props.appTierPort = props.httpPort
    /\ Cardinality(sg.groups["web"].ingress) = 1
    /\ Cardinality(sg.groups["app"].ingress) = 1
    /\ Cardinality(sg.groups["db"].ingress) = 1

\* the egress rules of a group whose peer is an address range
CidrEgress(c, g) == {r \in c.groups[g].egress : r.peer.kind = "cidr"}

\* the egress rules of a group whose peer is a group
ChainEgress(c, g) == {r \in c.groups[g].egress : r.peer.kind = "sg"}

\* C8: with allowPackageDownloads true or absent the Web tier and App tier
\* groups each have the two side-channel rules (tcp httpPort and tcp httpsPort
\* to any address) beside unchanged chain rules; with it false no group has an
\* egress rule to an address range; ALB and Database never have one.
C8_SideChannelIndependent ==
    SgBuilt =>
        /\ \A h \in Chain(props) :
              ChainEgress(sg, h.src) = {TcpRule(SgPeer(h.dst), h.port)}
        /\ \A g \in {"web", "app"} :
              CidrEgress(sg, g) =
                  IF PackageDownloads(props)
                  THEN {TcpRule(CidrPeer(AnyIpv4), props.httpPort),
                        TcpRule(CidrPeer(AnyIpv4), props.httpsPort)}
                  ELSE {}
        /\ CidrEgress(sg, "alb") = {}
        /\ CidrEgress(sg, "db") = {}

\* ------------------------------------------------------------------------
\* Claims about HighlyAvailableStack and AppTierAsgConstruct
\* ------------------------------------------------------------------------

\* C4: the graph the stack builds holds exactly one VPC, one load balancer with
\* one target group and one listener, two scaling groups, one database
\* instance with one credentials secret, and four security groups.
C4_ResourceCounts ==
    StackBuilt =>
        /\ Cardinality(ResourcesOfType("AWS::EC2::VPC")) = 1
        /\ Cardinality(ResourcesOfType("AWS::ElasticLoadBalancingV2::LoadBalancer")) = 1
        /\ Cardinality(ResourcesOfType("AWS::ElasticLoadBalancingV2::TargetGroup")) = 1
        /\ Cardinality(ResourcesOfType("AWS::ElasticLoadBalancingV2::Listener")) = 1
        /\ ResourcesOfType("AWS::AutoScaling::AutoScalingGroup") = {"web", "app"}
        /\ Cardinality(ResourcesOfType("AWS::RDS::DBInstance")) = 1
        /\ Cardinality(ResourcesOfType("AWS::SecretsManager::Secret")) = 1
        /\ ResourcesOfType("AWS::EC2::SecurityGroup") = GroupIds

C4_Witness ==
    /\ StackBuilt
    /\ doc.environment = "production"
    /\ doc.webTier.subnetType = "PUBLIC"
    /\ Cardinality(ResourcesOfType("AWS::EC2::SecurityGroup")) = 4
    /\ Cardinality(ResourcesOfType("AWS::AutoScaling::AutoScalingGroup")) = 2

\* C9: a subnetType keyword other than PUBLIC, PRIVATE_WITH_EGRESS and
\* PRIVATE_ISOLATED aborts the construction of the scaling group with an error
\* naming the field; no group is produced with a substituted subnet tier.
C9_UnknownSubnetTypeAborts ==
    (mode = "asg" /\ asgProps.subnetType \notin SubnetKeywords \cup {Absent}) =>
        /\ ~asg["app"].created
        /\ apppc \in {"done", "failed"} => (apppc = "failed" /\ err.field = "subnetType")

\* C10: a document lacking a required setting never yields a stack: loading
\* fails with an error naming an absent setting and nothing is built; and in a
\* stack that is built every optional setting left out has its default.
C10_RequiredOrDefault ==
    /\ doc.missing # {} =>
          /\ pc \in {"loadConfig", "failed"}
          /\ resources = {} /\ sgpc = "idle" /\ apppc = "idle"
          /\ pc = "failed" =>
                (err.kind = "missing required field" /\ err.field \in doc.missing)
    /\ StackBuilt =>
          /\ doc.appTier.requireImdsv2 = Absent => asg["app"].requireImdsv2
          /\ doc.appTier.subnetType = Absent => asg["app"].subnetType = "PRIVATE_WITH_EGRESS"
          /\ doc.names.appTierAutoScalingGroup = Absent =>
                asg["app"].id = "AppTierAutoScalingGroup"
          /\ doc.names.appTierCpuScalingPolicy = Absent =>
                \A q \in asg["app"].policies : q.id = "AppTierCpuScaling"
          /\ doc.security.albAllowAllOutbound = Absent => ~sg.groups["alb"].allowAllOutbound
          /\ doc.security.webTierAllowAllOutbound = Absent => ~sg.groups["web"].allowAllOutbound
          /\ doc.security.appTierAllowAllOutbound = Absent => ~sg.groups["app"].allowAllOutbound
          /\ doc.security.dbAllowAllOutbound = Absent => ~sg.groups["db"].allowAllOutbound
          /\ (doc.security.allowPackageDownloads = Absent
                /\ doc.security.webTierAllowAllOutbound # "true") =>
                TcpRule(CidrPeer(AnyIpv4), doc.security.httpsPort) \in sg.groups["web"].egress
          /\ doc.security.albSecurityGroupName = Absent => sg.groups["alb"].name = "AlbSecurityGroup"
          /\ doc.security.databaseSecurityGroupName = Absent =>
                sg.groups["db"].name = "DatabaseSecurityGroup"

C10_Witness ==
    /\ pc = "failed"
    /\ doc.missing = {"database.engine", "compute.appTier.minCapacity"}
    /\ err = [kind |-> "missing required field", field |-> "database.engine"]

\* ------------------------------------------------------------------------
\* Claims about the assembly as a whole
\* ------------------------------------------------------------------------

\* the construct ids of the graph's resources
ResourceIds == {r.id : r \in resources}

\* every component of the stack is in the graph, each of them complete
AllComponentsBuilt ==
    /\ {"Vpc", "PublicNetworkAcl", "PrivateNetworkAcl", "ApplicationLoadBalancer",
        "WebTierTargetGroup", "HttpListener", "Database", "DatabaseCredentials"}
          \subseteq ResourceIds
    /\ \A g \in GroupIds : sg.groups[g].created
    /\ sgpc = "done" /\ apppc = "done"
    /\ asg["web"].created /\ asg["web"].policies # {}
    /\ asg["web"].userData = <<FileContent(ScriptPath("web-tier", doc.environment))>>
    /\ asg["app"].created /\ asg["app"].policies # {}
    /\ asg["app"].userData = <<FileContent(ScriptPath("app-tier", doc.environment))>>
    /\ database.created
    /\ grants = {"app"}
    /\ outputs = OutputsConstruct(doc.environment)

\* C11: there is no partial deployment: a component that throws ends the
\* stack's constructor with that error, nothing after it is built and the
\* constructor never returns a graph; a graph that is returned holds every
\* component, complete, and no error.
C11_NoPartialDeployment ==
    /\ StackBuilt => (err = NoError /\ AllComponentsBuilt)
    /\ (mode = "stack" /\ (sgpc = "failed" \/ apppc = "failed" \/ err # NoError)) =>
          /\ pc # "done"
          /\ ~database.created /\ grants = {} /\ outputs = {}
    /\ (mode = "stack" /\ sgpc = "failed") =>
          (~asg["web"].created /\ "ApplicationLoadBalancer" \notin ResourceIds)
    /\ pc = "failed" => err # NoError

\* the app tier's construct failed to read its boot script after it had
\* created the scaling group, with the earlier components already built
C11_Witness ==
    /\ pc = "failed"
    /\ err = [kind |-> "ENOENT", field |-> "userDataScriptPath"]
    /\ asg["app"].created /\ asg["web"].created
    /\ "Vpc" \in ResourceIds

StackOrder == <<"loadConfig", "vpc", "nacl", "securityGroups", "alb", "webTier",
                "appTier", "rds", "grantRead", "outputs", "done">>

Rank(p) == CHOOSE i \in 1..Len(StackOrder) : StackOrder[i] = p

\* every component that is in the graph has the components it takes as input
DependenciesBuilt ==
    /\ "PublicNetworkAcl" \in ResourceIds => "Vpc" \in ResourceIds
    /\ (\E g \in GroupIds : sg.groups[g].created) =>
          {"Vpc", "PublicNetworkAcl", "PrivateNetworkAcl"} \subseteq ResourceIds
    /\ "ApplicationLoadBalancer" \in ResourceIds =>
          (sgpc = "done" /\ sg.groups["alb"].created)
    /\ asg["web"].created =>
          (sg.groups["web"].created /\ "WebTierTargetGroup" \in ResourceIds)
    /\ asg["app"].created => (asg["web"].created /\ sg.groups["app"].created)
    /\ database.created =>
          (sg.groups["db"].created /\ apppc = "done" /\ asg["web"].created)
    /\ grants # {} =>
          (database.created /\ "DatabaseCredentials" \in ResourceIds /\ asg["app"].created)
    /\ outputs # {} =>
          (grants = {"app"} /\ database.created /\ asg["web"].created /\ asg["app"].created
             /\ "ApplicationLoadBalancer" \in ResourceIds)

\* the constructor moves from each step to the next one in source order, or fails
AdvancesInOrder ==
    pc' # pc => (pc' = "failed" \/ Rank(pc') = Rank(pc) + 1)

\* C13: the stack's constructor builds each component once, in the order
\* network, network ACLs, security groups, load balancer, web tier, app tier,
\* database, outputs, and each component only after the components whose
\* outputs it takes.
C13_OnceInOrder ==
    [](mode = "stack" => DependenciesBuilt) /\ [][AdvancesInOrder]_vars

C13_Witness ==
    /\ StackBuilt
    /\ doc.environment = "staging"
    /\ grants = {"app"}
    /\ outputs # {}
    /\ database.created

\* the components registered with a target group
TargetsOf(tg) ==
    {t \in {"web", "app"} : asg[t].created /\ tg \in asg[t].targetGroups}
    \cup (IF database.created /\ tg \in database.targetGroups THEN {"db"} ELSE {})

\* C14: the load balancer's target group is attached to the web tier's scaling
\* group only: the app tier's group is attached to no target group and the
\* database is no target.
C14_TargetGroupIsWebTierOnly ==
    /\ asg["app"].created => asg["app"].targetGroups = {}
    /\ StackBuilt =>
          /\ TargetsOf("WebTierTargetGroup") = {"web"}
          /\ asg["web"].targetGroups = ResourcesOfType("AWS::ElasticLoadBalancingV2::TargetGroup")

C14_Witness ==
    /\ StackBuilt
    /\ asg["app"].healthCheckType = "EC2"
    /\ asg["web"].targetGroups = {"WebTierTargetGroup"}
    /\ asg["app"].targetGroups = {}

\* the section of the document a tier's scaling group is configured from
TierConfig(t) == IF t = "web" THEN doc.webTier ELSE doc.appTier

\* the tier's construct has run to its end (the web tier's construct ends
\* the stack's constructor when it throws, before the app tier's is entered)
TierComplete(t) ==
    IF t = "web" THEN asg["web"].created /\ (pc # "failed" \/ apppc # "idle")
    ELSE asg["app"].created /\ apppc = "done"

\* C15: a tier's scaling group carries the min, max and desired capacities of
\* its own section of the document unchanged, and has exactly one CPU
\* target-tracking policy whose target is that section's targetCpuUtilization.
C15_CapacitiesAndCpuPolicy ==
    mode = "stack" =>
        \A t \in {"web", "app"} :
            /\ asg[t].created =>
                  /\ asg[t].minCapacity = TierConfig(t).minCapacity
                  /\ asg[t].maxCapacity = TierConfig(t).maxCapacity
                  /\ asg[t].desiredCapacity = TierConfig(t).desiredCapacity
            /\ TierComplete(t) =>
                  /\ Cardinality(asg[t].policies) = 1
                  /\ \A q \in asg[t].policies :
                        /\ q.type = "TargetTrackingScaling"
                        /\ q.metric = "ASGAverageCPUUtilization"
                        /\ q.targetUtilizationPercent = TierConfig(t).targetCpuUtilization

C15_Witness ==
    /\ StackBuilt
    /\ doc.appTier.maxCapacity = 10
    /\ doc.webTier.maxCapacity = 6
    /\ \E q \in asg["app"].policies : q.targetUtilizationPercent = 60
    /\ \E q \in asg["web"].policies : q.targetUtilizationPercent = 70

\* C16: the database descriptor carries the document's multiAz,
\* backupRetention and deletionProtection values unchanged.
C16_DatabaseSettingsCarried ==
    database.created =>
        /\ database.multiAz = doc.database.multiAz
        /\ database.backupRetention = doc.database.backupRetention
        /\ database.deletionProtection = doc.database.deletionProtection

C16_Witness ==
    /\ StackBuilt
    /\ doc.environment = "dev"
    /\ doc.database = [multiAz |-> TRUE, backupRetention |-> 30, deletionProtection |-> TRUE]
    /\ database.multiAz /\ database.backupRetention = 30 /\ database.deletionProtection

ListedOutputs ==
    {"VpcId", "VpcCidr", "LoadBalancerDNS", "LoadBalancerARN",
     "WebTierAutoScalingGroupName", "WebTierAutoScalingGroupARN",
     "AppTierAutoScalingGroupName", "AppTierAutoScalingGroupARN",
     "DatabaseEndpoint", "DatabasePort", "DatabaseSecretArn"}

\* C18: every listed output has an export name, the export names are pairwise
\* distinct, and each starts with <environment>-HighlyAvailable3Tier-.
C18_EveryOutputExported ==
    StackBuilt =>
        /\ \A o \in ListedOutputs :
              \E x \in outputs :
                  /\ x.id = o
                  /\ Len(x.exportName) = 4
                  /\ SubSeq(x.exportName, 1, 3) = <<doc.environment, "-HighlyAvailable3Tier", "-">>
        /\ \A x, y \in {z \in outputs : z.id \in ListedOutputs} :
              x.exportName = y.exportName => x = y

\* ------------------------------------------------------------------------
\* The app tier's boot script and the service it installs
\* (scripts/app-tier-user-data-staging.sh)
\* ------------------------------------------------------------------------

assemblyVars == <<mode, prior, sgVars, stackVars, asgVars>>

\* the commands of the script in source order
BootOrder == <<"installNode", "getToken", "getInstanceId", "getAvailabilityZone",
               "getPrivateIp", "makeAppDir", "writeServerJs", "writeUnit", "chown",
               "daemonReload", "enable", "start", "sleep", "status">>

BootIndex(label) == CHOOSE i \in 1..Len(BootOrder) : BootOrder[i] = label

\* the command after label
BootAfter(label) ==
    IF BootIndex(label) = Len(BootOrder) THEN "done" ELSE BootOrder[BootIndex(label) + 1]

\* the script without set -e: a failing command is passed over
BootGotoNoErrexit(label, failed) == BootAfter(label)

\* set -e (line 2): a command that fails ends the script
BootGoto(label, failed) == IF failed THEN "exited" ELSE BootAfter(label)

\* line 22: const PORT = 8080
PORT == 8080

\* what the instance metadata service answers; an empty answer is an empty body
ImdsSet ==
    { [token |-> "imds-token", instanceId |-> i, availabilityZone |-> z, privateIp |-> a] :
        i \in {"i-0123456789abcdef0", ""},
        z \in {"us-west-2a", "us-west-2b"},
        a \in {"10.0.10.25", ""} }

\* the command that fails on the instance, if any (no network, no package,
\* no room on the disk)
Faults == {"none", "installNode", "getToken", "getInstanceId", "getAvailabilityZone",
           "getPrivateIp", "writeServerJs", "writeUnit"}

\* a read of the metadata service with the X-aws-ec2-metadata-token header
ImdsGet(b, key) == IF b.shell.TOKEN = b.imds.token THEN b.imds[key] ELSE ""

\* one command done: the log grows and control moves on, or the script ends
BootDone(b, label, next) ==
    [next EXCEPT !.log = Append(b.log, label),
                 !.pc = BootGoto(label, b.fault = label)]

\* line 5: dnf install -y nodejs npm || (setup script && dnf install -y nodejs)
InstallNodeStmt(b) == [b EXCEPT !.nodeInstalled = (b.fault # "installNode")]

\* line 8: TOKEN=$(curl -X PUT .../latest/api/token ...)
GetTokenStmt(b) ==
    IF b.fault = "getToken" THEN b ELSE [b EXCEPT !.shell.TOKEN = b.imds.token]

\* line 9: INSTANCE_ID=$(curl -H token .../meta-data/instance-id)
GetInstanceIdStmt(b) ==
    IF b.fault = "getInstanceId" THEN b
    ELSE [b EXCEPT !.shell.INSTANCE_ID = ImdsGet(b, "instanceId")]

\* line 10: AVAILABILITY_ZONE=$(curl -H token .../placement/availability-zone)
GetAvailabilityZoneStmt(b) ==
    IF b.fault = "getAvailabilityZone" THEN b
    ELSE [b EXCEPT !.shell.AVAILABILITY_ZONE = ImdsGet(b, "availabilityZone")]

\* line 11: PRIVATE_IP=$(curl -H token .../local-ipv4)
GetPrivateIpStmt(b) ==
    IF b.fault = "getPrivateIp" THEN b
    ELSE [b EXCEPT !.shell.PRIVATE_IP = ImdsGet(b, "privateIp")]

\* lines 14-15: mkdir -p /opt/app; cd /opt/app
MakeAppDirStmt(b) == [b EXCEPT !.appDir = TRUE]

\* lines 18-61: server.js written as it stands (quoted heredoc)
WriteServerJsStmt(b) ==
    IF b.fault = "writeServerJs" THEN b ELSE [b EXCEPT !.serverJs = TRUE]

\* no unit file yet
NoUnit == [written |-> FALSE, INSTANCE_ID |-> "", AVAILABILITY_ZONE |-> "", PRIVATE_IP |-> ""]

\* $NAME in an unquoted heredoc: the shell variable's value, empty when unset
Expand(b, name) == IF b.shell[name] = Absent THEN "" ELSE b.shell[name]

\* the unit file written as it stands (quoted heredoc): nothing is expanded
WriteUnitStmtQuoted(b) ==
    [b EXCEPT !.unit = [written |-> TRUE, INSTANCE_ID |-> "$INSTANCE_ID",
                        AVAILABILITY_ZONE |-> "$AVAILABILITY_ZONE",
                        PRIVATE_IP |-> "$PRIVATE_IP"]]

\* lines 64-86: the unit file, its Environment= lines expanded by the shell
WriteUnitStmt(b) ==
    IF b.fault = "writeUnit" THEN b
    ELSE [b EXCEPT !.unit = [written |-> TRUE, INSTANCE_ID |-> Expand(b, "INSTANCE_ID"),
                             AVAILABILITY_ZONE |-> Expand(b, "AVAILABILITY_ZONE"),
                             PRIVATE_IP |-> Expand(b, "PRIVATE_IP")]]

\* line 89: chown -R ec2-user:ec2-user /opt/app
ChownStmt(b) == [b EXCEPT !.owner = "ec2-user"]

\* line 92: systemctl daemon-reload
DaemonReloadStmt(b) == [b EXCEPT !.unitLoaded = b.unit]

\* line 93: systemctl enable app-tier
EnableStmt(b) == [b EXCEPT !.enabled = TRUE]

\* no response: the connection was refused
NoResponse == [path |-> "", status |-> 0, body |-> <<>>, writeHeadCalls |-> 0, endCalls |-> 0]

\* ExecStart=/usr/bin/node /opt/app/server.js with the unit's Environment:
\* the process listens on PORT (lines 47-52)
StartService(b) ==
    [state |-> "running", env |-> b.unitLoaded, port |-> PORT, last |-> NoResponse]

\* lines 23-25: process.env.NAME || 'unknown'
EnvOr(env, name) == IF env[name] = "" THEN "unknown" ELSE env[name]

\* lines 27-45: the response of the createServer handler, which calls
\* writeHead and end once; lines 55-60: for /health the second listener calls
\* writeHead on the same response again (and throws before its end)
ResponseOf(s, path) ==
    [path |-> path, status |-> 200,
     writeHeadCalls |-> IF path = "/health" THEN 2 ELSE 1,
     endCalls |-> 1,
     body |-> [message |-> "Application Tier - Business Logic Layer",
               instanceId |-> EnvOr(s.env, "INSTANCE_ID"),
               availabilityZone |-> EnvOr(s.env, "AVAILABILITY_ZONE"),
               privateIp |-> EnvOr(s.env, "PRIVATE_IP"),
               path |-> path, status |-> "healthy"]]

\* lines 55-60: the second 'request' listener runs after the first has ended
\* the response; for /health it calls writeHead on a response whose headers
\* are sent, which throws, and the uncaught exception ends the process
SecondListenerThrows(path) == path = "/health"

\* the paths requested
Paths == {"/", "/health", "/api/items"}

InitBoot ==
    /\ mode = "boot"
    /\ \E imds \in ImdsSet, fault \in Faults :
          boot = [pc |-> "installNode", imds |-> imds, fault |-> fault,
                  shell |-> [TOKEN |-> Absent, INSTANCE_ID |-> Absent,
                             AVAILABILITY_ZONE |-> Absent, PRIVATE_IP |-> Absent],
                  nodeInstalled |-> FALSE, appDir |-> FALSE, serverJs |-> FALSE,
                  unit |-> NoUnit, unitLoaded |-> NoUnit, owner |-> "root",
                  enabled |-> FALSE, log |-> <<>>]
    /\ server = [state |-> "stopped", env |-> NoUnit, port |-> 0, last |-> NoResponse]
    /\ props = Unset /\ sgpc = "idle" /\ sg = EmptyConstruct
    /\ doc = Unset /\ pc = "idle" /\ err = NoError
    /\ resources = {} /\ grants = {} /\ outputs = {}
    /\ asgProps = Unset /\ apppc = "idle" /\ asg = [t \in {"web", "app"} |-> NoAsg]
    /\ database = NoDatabase /\ prior = NoPrior

\* a command of the script that leaves the service alone
BootStep(label, next) ==
    /\ boot.pc = label
    /\ boot' = BootDone(boot, label, next)
    /\ UNCHANGED <<server, assemblyVars>>

InstallNode == BootStep("installNode", InstallNodeStmt(boot))
GetToken == BootStep("getToken", GetTokenStmt(boot))
GetInstanceId == BootStep("getInstanceId", GetInstanceIdStmt(boot))
GetAvailabilityZone == BootStep("getAvailabilityZone", GetAvailabilityZoneStmt(boot))
GetPrivateIp == BootStep("getPrivateIp", GetPrivateIpStmt(boot))
MakeAppDir == BootStep("makeAppDir", MakeAppDirStmt(boot))
WriteServerJs == BootStep("writeServerJs", WriteServerJsStmt(boot))
WriteUnit == BootStep("writeUnit", WriteUnitStmt(boot))
ChownAppDir == BootStep("chown", ChownStmt(boot))
DaemonReload == BootStep("daemonReload", DaemonReloadStmt(boot))
EnableService == BootStep("enable", EnableStmt(boot))

\* line 94: systemctl start app-tier
StartAppTier ==
    /\ boot.pc = "start"
    /\ boot' = BootDone(boot, "start", boot)
    /\ server' = StartService(boot)
    /\ UNCHANGED assemblyVars

\* line 97: sleep 5 (requests may arrive meanwhile)
Sleep == BootStep("sleep", boot)

\* line 100: systemctl status app-tier fails when the service is not active
StatusAppTier ==
    /\ boot.pc = "status"
    /\ boot' = [boot EXCEPT !.log = Append(boot.log, "status"),
                            !.pc = BootGoto("status", server.state # "running")]
    /\ UNCHANGED <<server, assemblyVars>>

\* a request to the running service: the createServer handler answers it,
\* then the second listener runs
HandleRequest ==
    /\ server.state = "running"
    /\ \E path \in Paths :
          server' = [server EXCEPT !.last = ResponseOf(server, path),
                                   !.state = IF SecondListenerThrows(path)
                                             THEN "crashed" ELSE "running"]
    /\ UNCHANGED <<boot, assemblyVars>>

\* a request while the process is down: nothing listens on the port
ConnectionRefused ==
    /\ server.state \in {"crashed", "exited"}
    /\ \E path \in Paths :
          server' = [server EXCEPT !.last = [NoResponse EXCEPT !.path = path]]
    /\ UNCHANGED <<boot, assemblyVars>>

\* the process ended by SIGTERM, which no handler in server.js catches: systemd
\* counts it a clean exit, and Restart=on-failure (line 78) leaves it at that
CleanExit ==
    /\ server.state = "running"
    /\ server' = [server EXCEPT !.state = "exited"]
    /\ UNCHANGED <<boot, assemblyVars>>

\* the unit with Restart=no: a process that failed stays down
SystemdRestartNever ==
    /\ server.state = "crashed"
    /\ UNCHANGED vars

\* Restart=on-failure, RestartSec=10 (lines 78-79): systemd starts the process again
SystemdRestart ==
    /\ server.state = "crashed"
    /\ server' = [server EXCEPT !.state = "running"]
    /\ UNCHANGED <<boot, assemblyVars>>

NextBoot ==
    \/ InstallNode
    \/ GetToken
    \/ GetInstanceId
    \/ GetAvailabilityZone
    \/ GetPrivateIp
    \/ MakeAppDir
    \/ WriteServerJs
    \/ WriteUnit
    \/ ChownAppDir
    \/ DaemonReload
    \/ EnableService
    \/ StartAppTier
    \/ Sleep
    \/ StatusAppTier
    \/ HandleRequest
    \/ ConnectionRefused
    \/ CleanExit
    \/ SystemdRestart

SpecBoot == InitBoot /\ [][NextBoot]_vars

\* systemd's restart is not put off forever: RestartSec=10 (line 79) elapses,
\* and restarts ten seconds apart stay under the start rate limit
SpecBootLive == SpecBoot /\ WF_vars(SystemdRestart)

\* the service has been started on the instance
Bootstrapped == server.state \in {"running", "crashed"}

\* C19: on a bootstrapped instance the server listens on port 8080 and every
\* request for /health gets a response with a status in the 200 range.
C19_HealthAlwaysAnswered ==
    Bootstrapped =>
        /\ server.port = 8080
        /\ server.last.path = "/health" =>
              (server.last.status >= 200 /\ server.last.status <= 299)

\* label a comes before label b in the log of commands run
Before(a, b) ==
    \A j \in 1..Len(boot.log) :
        boot.log[j] = b => \E i \in 1..(j - 1) : boot.log[i] = a

\* C20: the token is obtained before any metadata read, the three values are
\* fetched before the unit file embedding them is written, the unit file is
\* written before the service is started, and the running server reports the
\* three values the script fetched ('unknown' for one that is unset or empty).
C20_MetadataReachesServer ==
    /\ Before("getToken", "getInstanceId")
    /\ Before("getToken", "getAvailabilityZone")
    /\ Before("getToken", "getPrivateIp")
    /\ Before("getInstanceId", "writeUnit")
    /\ Before("getAvailabilityZone", "writeUnit")
    /\ Before("getPrivateIp", "writeUnit")
    /\ Before("writeUnit", "start")
    /\ boot.unit.written =>
          /\ boot.shell.TOKEN = boot.imds.token
          /\ boot.unit.INSTANCE_ID = boot.imds.instanceId
          /\ boot.unit.AVAILABILITY_ZONE = boot.imds.availabilityZone
          /\ boot.unit.PRIVATE_IP = boot.imds.privateIp
    /\ Bootstrapped => (boot.unit.written /\ server.env = boot.unit)
    /\ (Bootstrapped /\ server.last.status = 200) =>
          /\ server.last.body.instanceId =
                (IF boot.imds.instanceId = "" THEN "unknown" ELSE boot.imds.instanceId)
          /\ server.last.body.availabilityZone = boot.imds.availabilityZone
          /\ server.last.body.privateIp =
                (IF boot.imds.privateIp = "" THEN "unknown" ELSE boot.imds.privateIp)

C20_Witness ==
    /\ boot.pc = "done"
    /\ server.state = "running"
    /\ server.last.status = 200
    /\ server.last.path = "/api/items"
    /\ server.last.body.instanceId = "i-0123456789abcdef0"
    /\ server.last.body.privateIp = "unknown"

\* the block devices a tier is given by the document's one storage section
StorageOf(d) ==
    <<[deviceName |-> d.storage.deviceName, volumeSize |-> d.storage.volumeSize,
       volumeType |-> d.storage.volumeType, encrypted |-> d.storage.encrypted,
       deleteOnTermination |-> d.storage.deleteOnTermination, iops |-> d.storage.iops]>>

\* C21: for any configuration the block device of the web-tier group and of
\* the app-tier group is declared encrypted, and both tiers get the same
\* storage specification (size, type, iops, device name, delete-on-termination)
\* from the one compute.storage section.
C21_StorageEncryptedAndShared ==
    \A t \in {"web", "app"} :
        (mode = "stack" /\ asg[t].created) =>
            /\ asg[t].blockDevices = StorageOf(doc)
            /\ \A i \in 1..Len(asg[t].blockDevices) : asg[t].blockDevices[i].encrypted

\* C22: for any configuration built by the stack, a missing requireImdsv2
\* setting included, the descriptor of the app-tier scaling group has
\* requireImdsv2 = true.
C22_AppTierEnforcesImdsv2 ==
    (mode = "stack" /\ asg["app"].created) => asg["app"].requireImdsv2

\* C23: for every request the status line and headers are written exactly once
\* and the response is ended exactly once (the createServer handler and the
\* extra 'request' listener never both write the same response), so handling a
\* request never ends the server process and the server can answer the next one.
C23_ResponseWrittenOnce ==
    Bootstrapped =>
        /\ server.state = "running"
        /\ server.last.status # 0 =>
              (server.last.writeHeadCalls = 1 /\ server.last.endCalls = 1)

\* the security groups a rule-adding statement involves: the group the rule is
\* added to and the group it names as peer
RuleCalls ==
    [webIngress |-> <<"web", "alb">>, albEgress |-> <<"alb", "web">>,
     appIngress |-> <<"app", "web">>, webEgress |-> <<"web", "app">>,
     dbIngress |-> <<"db", "app">>, appEgress |-> <<"app", "db">>]

\* the security groups named as peer by the rules of a construct
PeersNamed(c) ==
    {r.peer.ref : r \in {x \in UNION {c.groups[g].ingress \cup c.groups[g].egress : g \in GroupIds} :
                            x.peer.kind = "sg"}}

\* a step of the constructor that runs a rule-adding statement finds both of
\* the statement's groups created, and a rule that a step adds names a group
\* that was created before the step
PeerCreatedBeforeCall ==
    /\ sgpc \in DOMAIN RuleCalls =>
          /\ sg.groups[RuleCalls[sgpc][1]].created
          /\ sg.groups[RuleCalls[sgpc][2]].created
    /\ \A g \in PeersNamed(sg') \ PeersNamed(sg) : sg.groups[g].created

\* C25: while SecurityGroupsConstruct runs, every addIngressRule/addEgressRule
\* names as peer a security group that is already created; each chain egress
\* rule toward a successor is added only after the successor's group exists
\* (ALB egress after the Web group, Web egress after the App group, App egress
\* after the Database group).
C25_PeerExistsBeforeRule ==
    /\ [](\A g \in PeersNamed(sg) : sg.groups[g].created)
    /\ [][PeerCreatedBeforeCall]_vars

C25_Witness ==
    /\ sgpc = "newDb"
    /\ ~sg.groups["db"].created
    /\ sg.groups["app"].created
    /\ TcpRule(SgPeer("app"), props.appTierPort) \in sg.groups["web"].egress
    /\ TcpRule(SgPeer("web"), props.httpPort) \in sg.groups["alb"].egress

\* the components of the stack that could be granted access to the secret
Grantees == {"alb", "web", "app", "database", "vpc"}

\* C24: only the app tier is granted read access to the database credentials
\* secret; the web tier, the load balancer and every other component have
\* none. The grant is made once the secret and the app-tier group exist.
C24_OnlyAppTierReadsSecret ==
    /\ \A c \in Grantees \ {"app"} : c \notin grants
    /\ grants \subseteq Grantees
    /\ "app" \in grants =>
          /\ asg["app"].created
          /\ [type |-> "AWS::SecretsManager::Secret", id |-> "DatabaseCredentials"] \in resources
    /\ (mode = "stack" /\ StackBuilt) => "app" \in grants

C24_Witness ==
    /\ pc = "outputs"
    /\ grants = {"app"}
    /\ asg["web"].created
    /\ outputs = {}

\* C26: the app-tier group's health-check type and grace period equal the
\* configured healthCheckType and healthCheckGracePeriod, whatever the library
\* set when the group was created, and the one configured cooldown is both the
\* group's cooldown and the CPU policy's cooldown.
C26_HealthCheckAndCooldown ==
    mode = "stack" =>
        /\ asg["app"].created => asg["app"].cooldown = doc.appTier.cooldown
        /\ TierComplete("app") =>
              /\ asg["app"].healthCheckType = doc.appTier.healthCheckType
              /\ asg["app"].healthCheckGracePeriod = doc.appTier.healthCheckGracePeriod
              /\ asg["app"].policies # {}
              /\ \A q \in asg["app"].policies : q.cooldown = doc.appTier.cooldown

C26_Witness ==
    /\ StackBuilt
    /\ doc.appTier.healthCheckType = "ELB"
    /\ asg["app"].healthCheckType = "ELB"
    /\ asg["app"].healthCheckGracePeriod = 120
    /\ asg["app"].cooldown = 60
    /\ \E q \in asg["app"].policies : q.cooldown = 60

\* the file-name prefix of a tier's boot scripts
TierPrefix(t) == IF t = "web" THEN "web-tier" ELSE "app-tier"

\* the tier's construct is past its user-data statement
UserDataAdded(t) ==
    IF t = "web" THEN TierComplete("web")
    ELSE asg["app"].created /\ apppc \in {"healthCheck", "scaleOnCpu", "done"}

\* C27: the boot script is selected by tier and environment: for dev, staging
\* and production the web tier loads web-tier-user-data-<env>.sh and the app
\* tier app-tier-user-data-<env>.sh, a tier never gets the other tier's
\* script, and user data holds exactly the content of the file at the given
\* path (no path, no boot script).
C27_BootScriptByTierAndEnvironment ==
    /\ mode = "stack" =>
          \A t \in {"web", "app"} :
              /\ UserDataAdded(t) =>
                    /\ asg[t].userData = <<FileContent(ScriptPath(TierPrefix(t), doc.environment))>>
                    /\ \A o \in {"web", "app"} \ {t} :
                          asg[t].userData # <<FileContent(ScriptPath(TierPrefix(o), doc.environment))>>
              /\ doc.environment \in ShippedEnvironments =>
                    err # [kind |-> "ENOENT", field |-> "userDataScriptPath"]
    /\ (mode = "asg" /\ UserDataAdded("app")) =>
          asg["app"].userData =
              (IF asgProps.userDataScriptPath \in {Absent, ""} THEN <<>>
               ELSE <<FileContent(asgProps.userDataScriptPath)>>)

C27_Witness ==
    /\ StackBuilt
    /\ doc.environment = "production"
    /\ asg["web"].userData = <<FileContent("scripts/web-tier-user-data-production.sh")>>
    /\ asg["app"].userData = <<FileContent("scripts/app-tier-user-data-production.sh")>>

\* the construct built without a boot script path
C27_NoPathWitness ==
    /\ mode = "asg"
    /\ apppc = "done"
    /\ asgProps.userDataScriptPath = Absent
    /\ asg["app"].userData = <<>>

\* the commands run so far are the script's first commands, in its order
RanInOrder ==
    /\ Len(boot.log) <= Len(BootOrder)
    /\ \A i \in 1..Len(boot.log) : boot.log[i] = BootOrder[i]

\* everything the service needs is in place
Prepared ==
    /\ boot.nodeInstalled
    /\ boot.shell.INSTANCE_ID # Absent
    /\ boot.shell.AVAILABILITY_ZONE # Absent
    /\ boot.shell.PRIVATE_IP # Absent
    /\ boot.serverJs
    /\ boot.unit.written
    /\ Before("installNode", "getInstanceId")
    /\ Before("getInstanceId", "getAvailabilityZone")
    /\ Before("getAvailabilityZone", "getPrivateIp")
    /\ Before("getPrivateIp", "writeServerJs")
    /\ Before("writeServerJs", "writeUnit")
    /\ Before("writeUnit", "enable")
    /\ Before("enable", "start")

\* the failing command was the last one the script ran
StoppedAtFailure ==
    (\E i \in 1..Len(boot.log) : boot.log[i] = boot.fault) =>
        /\ boot.pc = "exited"
        /\ boot.log[Len(boot.log)] = boot.fault
        /\ ~boot.enabled
        /\ server.state = "stopped"

\* a script that has ended runs nothing more, and it ends successfully only
\* from a final status check that finds the service running
EndsOnStatus ==
    /\ boot.pc \in {"exited", "done"} => boot' = boot
    /\ (boot.pc # "done" /\ boot'.pc = "done") =>
          (boot.pc = "status" /\ server.state = "running")

\* C28: the boot script stops at its first failing command: the service is
\* enabled and started only if the Node.js install, the three metadata reads
\* and the writing of server.js and of the unit file all succeeded, in that
\* order, and the script finishes successfully only if the final status check
\* reports the service running.
C28_StopsAtFirstFailure ==
    /\ [](mode = "boot" =>
            /\ RanInOrder
            /\ StoppedAtFailure
            /\ (boot.enabled \/ Bootstrapped) => Prepared)
    /\ [][mode = "boot" => EndsOnStatus]_vars

C28_Witness ==
    /\ boot.pc = "exited"
    /\ boot.fault = "writeUnit"
    /\ boot.serverJs
    /\ ~boot.unit.written
    /\ ~boot.enabled
    /\ server.state = "stopped"

\* C29: under the unit's Restart=on-failure and RestartSec=10, a server process
\* that exits with failure is eventually started again, so a crash is always
\* followed by a state where the server is running and answering on port 8080;
\* a clean exit is not followed by a restart.
C29_RestartedAfterFailure ==
    /\ (server.state = "crashed") ~> (server.state = "running" /\ server.port = 8080)
    /\ [][server.state = "exited" => server'.state = "exited"]_vars

C29_Witness ==
    /\ server.state = "running"
    /\ server.last.path = "/health"
    /\ server.last.status = 200
    /\ server.last.writeHeadCalls = 2

====
